---------------------------- MODULE Spec2Model ----------------------------
(***************************************************************************)
(* Model of the auto-fitting text layout routine render_text_in_rectangle  *)
(* (app/utils/generator_utils.py) and of the way ComicService calls it     *)
(* with its shared default font handle.                                    *)
(*                                                                         *)
(* Strings are sequences of one-character strings; a font handle is an     *)
(* index into the heap `fonts`, whose entry is the handle's point size.    *)
(* Pillow's FreeType metric getbbox(...)[2] is represented by an additive, *)
(* non-negative advance-width measure.                                     *)
(***************************************************************************)
EXTENDS Integers, Sequences, FiniteSets, TLC

(* ------------------------------ bounds -------------------------------- *)
MaxTextLen == 3
MaxFontSize == 3
MaxWidth == 4
MaxHeight == 3

Alphabet == {"a", " "}
Texts == UNION {[1..n -> Alphabet] : n \in 0..MaxTextLen}
FontSizes == 1..MaxFontSize
Widths == -1..MaxWidth
Heights == -1..MaxHeight
\* rectangle origins <<rectangle_bounds[0], rectangle_bounds[1]>>
Origins == {<<-3, -2>>, <<0, 0>>}
HorizontalAlignments == {"left", "center"}
VerticalAlignments == {"top", "center"}
\* line_spacing_multiplier as a fraction <<numerator, denominator>>:
\* 1.1 (the default), 0.5 and 1.5
Spacings == {<<11, 10>>, <<1, 2>>, <<3, 2>>}
Calls == {1, 2}

VARIABLES
    fonts,                 \* heap of font handles: fonts[h] is handle h's size
    truetype_zero,         \* what this Pillow build does for truetype(path, 0)
    text,                  \* the text argument
    rect_width,            \* rectangle_bounds[2] - rectangle_bounds[0]
    rect_height,           \* per call: rectangle_bounds[3] - rectangle_bounds[1]
    line_spacing,          \* line_spacing_multiplier, a fraction
    layout_chosen,         \* rectangle origin and alignments have been read
    rect_left,             \* rectangle_bounds[0]
    rect_top,              \* rectangle_bounds[1]
    horizontal_alignment,
    vertical_alignment,
    pc,                    \* per call: idle, loop, returned, raised
    current_font,          \* per call: the handle held by current_font
    start_size,            \* per call: size of the font argument at entry
    result,                \* per call: the returned value
    error,                 \* per call: the exception that left the call
    canvas,                \* the draw calls received by the canvas, in order
    comic,                 \* the generate_comic_image request being served
    weather,               \* the GET /weather/<zipcode> request being served
    route,                 \* the request path being dispatched
    dims                   \* the calculate_image_dimensions call

vars == <<fonts, truetype_zero, text, rect_width, rect_height, line_spacing,
          layout_chosen, rect_left, rect_top, horizontal_alignment,
          vertical_alignment, pc, current_font, start_size, result, error,
          canvas, comic, weather, route, dims>>

\* the state of the services around the renderer
service_vars == <<comic, weather, route, dims>>

(* --------------------------- pure helpers ----------------------------- *)

\* Python int() of a half: truncation toward zero of n / 2
TruncHalf(n) == IF n >= 0 THEN n \div 2 ELSE -((-n) \div 2)

Min2(a, b) == IF a <= b THEN a ELSE b
Max2(a, b) == IF a >= b THEN a ELSE b

\* index of the first space of s, 0 when there is none
RECURSIVE FirstSpace(_, _)
FirstSpace(s, i) ==
    IF i > Len(s) THEN 0
    ELSE IF s[i] = " " THEN i
    ELSE FirstSpace(s, i + 1)

\* a split that drops empty words, as text.split() does
RECURSIVE SplitNormalised(_)
SplitNormalised(s) ==
    LET i == FirstSpace(s, 1) IN
    IF i = 0 THEN (IF s = <<>> THEN <<>> ELSE <<s>>)
    ELSE (IF i = 1 THEN <<>> ELSE <<SubSeq(s, 1, i - 1)>>)
             \o SplitNormalised(SubSeq(s, i + 1, Len(s)))

\* text.split(" ")
RECURSIVE Split(_)
Split(s) ==
    LET i == FirstSpace(s, 1) IN
    IF i = 0 THEN <<s>>
    ELSE <<SubSeq(s, 1, i - 1)>> \o Split(SubSeq(s, i + 1, Len(s)))

\* " ".join(words)
RECURSIVE Join(_)
Join(words) ==
    IF words = <<>> THEN <<>>
    ELSE IF Len(words) = 1 THEN words[1]
    ELSE words[1] \o <<" ">> \o Join(Tail(words))

\* advance width of one glyph at a point size
GlyphAdvance(ch, size) == IF ch = " " THEN (size + 1) \div 2 ELSE size

\* current_font.getbbox(s)[2] for a font of the given size
RECURSIVE Measure(_, _)
Measure(s, size) ==
    IF s = <<>> THEN 0
    ELSE GlyphAdvance(Head(s), size) + Measure(Tail(s), size)

\* int(current_font.size * line_spacing_multiplier)
LineHeight(size, spacing) == (size * spacing[1]) \div spacing[2]

\* a line count rounded up instead of down
MaxLinesCeiling(height, line_height) ==
    (height + line_height - 1) \div line_height

\* math.floor(rect_height / line_height), line_height > 0
MaxLinesPossible(height, line_height) == height \div line_height

\* an inner loop that takes a word only when it leaves room to spare
RECURSIVE FillLineStrict(_, _, _, _)
FillLineStrict(current_line_words, remaining_words, size, width) ==
    IF /\ Len(remaining_words) > 0
       /\ Measure(Join(Append(current_line_words, remaining_words[1])), size)
              < width
    THEN FillLineStrict(Append(current_line_words, remaining_words[1]),
                        Tail(remaining_words), size, width)
    ELSE [line |-> current_line_words, rest |-> remaining_words]

\* an inner loop that tests the line before the next word is added to it
RECURSIVE FillLineNoLookahead(_, _, _, _)
FillLineNoLookahead(current_line_words, remaining_words, size, width) ==
    IF /\ Len(remaining_words) > 0
       /\ Measure(Join(current_line_words), size) <= width
       /\ Measure(remaining_words[1], size) <= width
    THEN FillLineNoLookahead(Append(current_line_words, remaining_words[1]),
                             Tail(remaining_words), size, width)
    ELSE [line |-> current_line_words, rest |-> remaining_words]

\* an inner loop that ends a line after its second word
RECURSIVE FillLineTwoWords(_, _, _, _)
FillLineTwoWords(current_line_words, remaining_words, size, width) ==
    IF /\ Len(remaining_words) > 0
       /\ Len(current_line_words) < 2
       /\ Measure(Join(Append(current_line_words, remaining_words[1])), size)
              <= width
    THEN FillLineTwoWords(Append(current_line_words, remaining_words[1]),
                          Tail(remaining_words), size, width)
    ELSE [line |-> current_line_words, rest |-> remaining_words]

\* an inner loop that gives every word a line of its own
FillLineOneWord(current_line_words, remaining_words, size, width) ==
    IF /\ Len(remaining_words) > 0
       /\ current_line_words = <<>>
       /\ Measure(remaining_words[1], size) <= width
    THEN [line |-> <<remaining_words[1]>>, rest |-> Tail(remaining_words)]
    ELSE [line |-> current_line_words, rest |-> remaining_words]

\* the inner while loop: words appended to the current line while they fit
RECURSIVE FillLine(_, _, _, _)
FillLine(current_line_words, remaining_words, size, width) ==
    IF /\ Len(remaining_words) > 0
       /\ Measure(Join(Append(current_line_words, remaining_words[1])), size)
              <= width
    THEN FillLine(Append(current_line_words, remaining_words[1]),
                  Tail(remaining_words), size, width)
    ELSE [line |-> current_line_words, rest |-> remaining_words]

\* an outer loop that gives a word too long for the line a line of its own
RECURSIVE WrapLoopOverflow(_, _, _, _, _)
WrapLoopOverflow(text_lines, remaining_words, size, width, max_lines) ==
    IF Len(text_lines) < max_lines /\ Len(remaining_words) > 0
    THEN LET f == FillLine(<<>>, remaining_words, size, width) IN
         IF f.line # <<>>
         THEN WrapLoopOverflow(Append(text_lines, Join(f.line)), f.rest, size,
                               width, max_lines)
         ELSE WrapLoopOverflow(Append(text_lines, remaining_words[1]),
                               Tail(remaining_words), size, width, max_lines)
    ELSE [text_lines |-> text_lines, remaining_words |-> remaining_words]

\* the outer while loop: lines produced until max_lines_possible is reached,
\* the words run out, or a word is too long for an empty line
RECURSIVE WrapLoop(_, _, _, _, _)
WrapLoop(text_lines, remaining_words, size, width, max_lines) ==
    IF Len(text_lines) < max_lines /\ Len(remaining_words) > 0
    THEN LET f == FillLine(<<>>, remaining_words, size, width) IN
         IF f.line # <<>>
         THEN WrapLoop(Append(text_lines, Join(f.line)), f.rest, size, width,
                       max_lines)
         ELSE [text_lines |-> text_lines, remaining_words |-> f.rest]
    ELSE [text_lines |-> text_lines, remaining_words |-> remaining_words]

\* one pass of the size loop up to the fit test
Wrap(txt, size, width, height, spacing) ==
    WrapLoop(<<>>, Split(txt), size, width,
             MaxLinesPossible(height, LineHeight(size, spacing)))

\* a fit test that wants the rectangle filled to its last line
FitsExactly(txt, size, width, height, spacing) ==
    LET w == Wrap(txt, size, width, height, spacing) IN
    /\ Len(w.text_lines)
           = MaxLinesPossible(height, LineHeight(size, spacing))
    /\ Len(w.remaining_words) = 0

\* "Check if all text fits"
Fits(txt, size, width, height, spacing) ==
    LET w == Wrap(txt, size, width, height, spacing) IN
    /\ Len(w.text_lines)
           <= MaxLinesPossible(height, LineHeight(size, spacing))
    /\ Len(w.remaining_words) = 0


(* ------------------------------ layout -------------------------------- *)

\* a centering on the line box alone, without the (line_height - size) term
StartYLineBox(top, height, num_lines, line_height, size, valign) ==
    IF valign = "top" THEN top
    ELSE TruncHalf(2 * top + height - num_lines * line_height)

\* starting Y position for the vertical alignment
StartY(top, height, num_lines, line_height, size, valign) ==
    IF valign = "top" THEN top
    ELSE TruncHalf(2 * top + height - num_lines * line_height
                   - (line_height - size))

\* a centered X rounded down instead of toward zero
LineXFloor(left, width, line_width, halign) ==
    IF halign = "center" THEN (2 * left + width - line_width) \div 2
    ELSE left

\* a centered line that starts at the middle of the rectangle
LineXFromMiddle(left, width, line_width, halign) ==
    IF halign = "center" THEN TruncHalf(2 * left + width) ELSE left

\* X position of a line for the horizontal alignment
LineX(left, width, line_width, halign) ==
    IF halign = "center" THEN TruncHalf(2 * left + width - line_width)
    ELSE left

\* a seed that already spans the rectangle from left to right
InitialBoundsWholeRect(left, right, start_y, num_lines, line_height) ==
    <<left, start_y, right, start_y + num_lines * line_height>>

\* the seed of the tracked text bounds
InitialBounds(left, right, start_y, num_lines, line_height) ==
    <<right, start_y, left, start_y + num_lines * line_height>>

\* a loop that draws every line with the font the call was given
RECURSIVE DrawLoopGivenFont(_, _, _, _, _, _, _, _)
DrawLoopGivenFont(c, text_lines, i, line_height, left, halign, current_y, acc) ==
    IF i > Len(text_lines) THEN acc
    ELSE LET size == fonts[current_font[c]]
             line_width == Measure(text_lines[i], size)
             line_x == LineX(left, rect_width, line_width, halign)
             b == acc.text_bounds
         IN DrawLoopGivenFont(c, text_lines, i + 1, line_height, left, halign,
                     current_y + line_height,
                     [text_bounds |-> <<Min2(b[1], line_x), b[2],
                                        Max2(b[3], line_x + line_width), b[4]>>,
                      drawn |-> Append(acc.drawn,
                                       [x |-> line_x, y |-> current_y,
                                        line_text |-> text_lines[i],
                                        font |-> 1,
                                        call |-> c])])

\* "Render each line": the for loop over text_lines from index i on
RECURSIVE DrawLoop(_, _, _, _, _, _, _, _)
DrawLoop(c, text_lines, i, line_height, left, halign, current_y, acc) ==
    IF i > Len(text_lines) THEN acc
    ELSE LET size == fonts[current_font[c]]
             line_width == Measure(text_lines[i], size)
             line_x == LineX(left, rect_width, line_width, halign)
             b == acc.text_bounds
         IN DrawLoop(c, text_lines, i + 1, line_height, left, halign,
                     current_y + line_height,
                     [text_bounds |-> <<Min2(b[1], line_x), b[2],
                                        Max2(b[3], line_x + line_width), b[4]>>,
                      drawn |-> Append(acc.drawn,
                                       [x |-> line_x, y |-> current_y,
                                        line_text |-> text_lines[i],
                                        font |-> current_font[c],
                                        call |-> c])])

\* the body of the fit branch: the returned bounds and the draw calls issued
Layout(c, text_lines, left, top, halign, valign) ==
    LET size == fonts[current_font[c]]
        line_height == LineHeight(size, line_spacing)
        start_y == StartY(top, rect_height[c], Len(text_lines), line_height,
                          size, valign)
    IN DrawLoop(c, text_lines, 1, line_height, left, halign, start_y,
                [text_bounds |-> InitialBounds(left, left + rect_width, start_y,
                                               Len(text_lines), line_height),
                 drawn |-> <<>>])

(* --------------------------- font handles ----------------------------- *)

\* a search that halves the size instead of stepping down by one
SmallerSizeHalved(size) == size \div 2

\* the size asked of ImageFont.truetype when a size is rejected
SmallerSize(size) == size - 1

\* a resize of the handle in hand instead of a new handle
TruetypeInPlace(c, size) ==
    [heap |-> [fonts EXCEPT ![current_font[c]] = size],
     handle |-> current_font[c]]

\* ImageFont.truetype(path, size): a new handle, the old ones untouched
Truetype(c, size) ==
    [heap |-> Append(fonts, size), handle |-> Len(fonts) + 1]

\* the font argument of every call: ComicService.default_font
DefaultFont == 1

(* ------------------------------ actions ------------------------------- *)

NoResult == [ok |-> FALSE, text_bounds |-> <<0, 0, 0, 0>>]

\* no weather request yet
NoWeather ==
    [stage |-> "idle", zipcode |-> "", view |-> "absent", frame |-> "absent",
     view_option |-> "", add_frame |-> FALSE, fetches |-> 0,
     raised |-> "none", status |-> 0, body |-> "none"]

\* no request path yet
NoRoute == [stage |-> "idle", path |-> <<>>, endpoint |-> "none", status |-> 0]

\* no calculate_image_dimensions call yet
NoDims ==
    [stage |-> "idle", function |-> "none",
     original_width |-> 0, original_height |-> 0,
     canvas_width |-> 0, canvas_height |-> 0, bottom_margin |-> 0,
     new_width |-> 0, new_height |-> 0, offset_x |-> 0, offset_y |-> 0]

\* no generate_comic_image request yet
NoComic ==
    [stage |-> "idle", has_img |-> FALSE, alt_text |-> <<>>,
     text_area_width |-> 0, qr_size |-> 0, footer_height |-> 0,
     pasted |-> <<>>, encoded |-> FALSE, returned |-> "nothing",
     error |-> "none"]

Init ==
    /\ fonts \in {<<s>> : s \in FontSizes}
    /\ truetype_zero = "unknown"
    /\ text = <<>>
    /\ rect_width = 0
    /\ rect_height = [c \in Calls |-> 0]
    /\ line_spacing = <<11, 10>>
    /\ layout_chosen = FALSE
    /\ rect_left = 0
    /\ rect_top = 0
    /\ horizontal_alignment = "left"
    /\ vertical_alignment = "top"
    /\ pc = [c \in Calls |-> "idle"]
    /\ current_font = [c \in Calls |-> DefaultFont]
    /\ start_size = [c \in Calls |-> 0]
    /\ result = [c \in Calls |-> NoResult]
    /\ error = [c \in Calls |-> "none"]
    /\ canvas = <<>>
    /\ comic = NoComic
    /\ weather = NoWeather
    /\ route = NoRoute
    /\ dims = NoDims

\* an entry that starts from the handle the other call is holding
EnterFromLastHandle(c) ==
    LET other == CHOOSE d \in Calls : d # c IN
    /\ pc' = [pc EXCEPT ![c] = "loop"]
    /\ current_font' = [current_font EXCEPT ![c] = current_font[other]]
    /\ start_size' = [start_size EXCEPT ![c] = fonts[current_font[other]]]

\* entry of a call: rect_width, rect_height computed, current_font = font
Enter(c) ==
    /\ pc' = [pc EXCEPT ![c] = "loop"]
    /\ current_font' = [current_font EXCEPT ![c] = DefaultFont]
    /\ start_size' = [start_size EXCEPT ![c] = fonts[DefaultFont]]

\* a first request arrives
CallFirst ==
    /\ pc[1] = "idle"
    /\ \E t \in Texts, w \in Widths, h \in Heights, sp \in Spacings :
          /\ text' = t
          /\ rect_width' = w
          /\ rect_height' = [c \in Calls |-> h]
          /\ line_spacing' = sp
    /\ Enter(1)
    /\ UNCHANGED <<fonts, truetype_zero, layout_chosen, rect_left, rect_top,
                   horizontal_alignment, vertical_alignment, result, error,
                   canvas>>
    /\ UNCHANGED service_vars

\* the same request again, with the same or a lower rectangle
CallAgain ==
    /\ pc[1] \in {"returned", "raised"}
    /\ pc[2] = "idle"
    /\ \E h \in Heights :
          /\ h <= rect_height[1]
          /\ rect_height' = [rect_height EXCEPT ![2] = h]
    /\ Enter(2)
    /\ UNCHANGED <<fonts, truetype_zero, text, rect_width, line_spacing,
                   layout_chosen, rect_left, rect_top, horizontal_alignment,
                   vertical_alignment, result, error, canvas>>
    /\ UNCHANGED service_vars

Size(c) == fonts[current_font[c]]

\* while current_font.size > 0 is false: return None
LoopExit(c) ==
    /\ pc[c] = "loop"
    /\ Size(c) <= 0
    /\ pc' = [pc EXCEPT ![c] = "returned"]
    /\ result' = [result EXCEPT ![c] = NoResult]
    /\ UNCHANGED <<fonts, truetype_zero, text, rect_width, rect_height,
                   line_spacing, layout_chosen, rect_left, rect_top,
                   horizontal_alignment, vertical_alignment, current_font,
                   start_size, error, canvas>>
    /\ UNCHANGED service_vars

\* rect_height / line_height with line_height = 0
ZeroLineHeight(c) ==
    /\ pc[c] = "loop"
    /\ Size(c) > 0
    /\ LineHeight(Size(c), line_spacing) = 0
    /\ pc' = [pc EXCEPT ![c] = "raised"]
    /\ error' = [error EXCEPT ![c] = "ZeroDivisionError"]
    /\ UNCHANGED <<fonts, truetype_zero, text, rect_width, rect_height,
                   line_spacing, layout_chosen, rect_left, rect_top,
                   horizontal_alignment, vertical_alignment, current_font,
                   start_size, result, canvas>>
    /\ UNCHANGED service_vars

CanTry(c) ==
    /\ pc[c] = "loop"
    /\ Size(c) > 0
    /\ LineHeight(Size(c), line_spacing) > 0

FitsNow(c) == Fits(text, Size(c), rect_width, rect_height[c], line_spacing)

\* the size fits: the lines are positioned and drawn, the bounds returned
Accept(c) ==
    /\ CanTry(c)
    /\ FitsNow(c)
    /\ \E o \in Origins \cup {<<rect_left, rect_top>>},
          ha \in HorizontalAlignments, va \in VerticalAlignments :
          LET l == o[1]
              t == o[2]
          IN
          /\ layout_chosen =>
                /\ l = rect_left
                /\ t = rect_top
                /\ ha = horizontal_alignment
                /\ va = vertical_alignment
          /\ rect_left' = l
          /\ rect_top' = t
          /\ horizontal_alignment' = ha
          /\ vertical_alignment' = va
          /\ LET w == Wrap(text, Size(c), rect_width, rect_height[c],
                           line_spacing)
                 lay == Layout(c, w.text_lines, l, t, ha, va)
             IN /\ canvas' = canvas \o lay.drawn
                /\ result' = [result EXCEPT
                                 ![c] = [ok |-> TRUE,
                                         text_bounds |-> lay.text_bounds]]
    /\ layout_chosen' = TRUE
    /\ pc' = [pc EXCEPT ![c] = "returned"]
    /\ UNCHANGED <<fonts, truetype_zero, text, rect_width, rect_height,
                   line_spacing, current_font, start_size, error>>
    /\ UNCHANGED service_vars

\* the size does not fit and truetype returns a handle of the smaller size
Retry(c) ==
    /\ CanTry(c)
    /\ ~FitsNow(c)
    /\ LET s == SmallerSize(Size(c))
           t == Truetype(c, s)
       IN /\ s <= 0 => truetype_zero # "raises"
          /\ truetype_zero' = IF s <= 0 THEN "returns" ELSE truetype_zero
          /\ fonts' = t.heap
          /\ current_font' = [current_font EXCEPT ![c] = t.handle]
    /\ UNCHANGED <<text, rect_width, rect_height, line_spacing, layout_chosen,
                   rect_left, rect_top, horizontal_alignment,
                   vertical_alignment, pc, start_size, result, error, canvas>>
    /\ UNCHANGED service_vars

\* the size does not fit and truetype refuses the size 0 (Pillow >= 10.1:
\* "font size must be greater than 0")
RetryRaise(c) ==
    /\ CanTry(c)
    /\ ~FitsNow(c)
    /\ SmallerSize(Size(c)) <= 0
    /\ truetype_zero # "returns"
    /\ truetype_zero' = "raises"
    /\ pc' = [pc EXCEPT ![c] = "raised"]
    /\ error' = [error EXCEPT ![c] = "ValueError"]
    /\ UNCHANGED <<fonts, text, rect_width, rect_height, line_spacing,
                   layout_chosen, rect_left, rect_top, horizontal_alignment,
                   vertical_alignment, current_font, start_size, result,
                   canvas>>
    /\ UNCHANGED service_vars

Next ==
    \/ CallFirst
    \/ CallAgain
    \/ \E c \in Calls : LoopExit(c)
    \/ \E c \in Calls : ZeroLineHeight(c)
    \/ \E c \in Calls : Accept(c)
    \/ \E c \in Calls : Retry(c)
    \/ \E c \in Calls : RetryRaise(c)

Spec == Init /\ [][Next]_vars

\* one request, served once
NextOnce ==
    \/ CallFirst
    \/ LoopExit(1)
    \/ ZeroLineHeight(1)
    \/ Accept(1)
    \/ Retry(1)
    \/ RetryRaise(1)

SpecOnce == Init /\ [][NextOnce]_vars


(* ------------------------- reading a finished call -------------------- *)

Finished(c) == pc[c] \in {"returned", "raised"}
Accepted(c) == pc[c] = "returned" /\ result[c].ok
ReturnedNone(c) == pc[c] = "returned" /\ ~result[c].ok

\* the draw calls the canvas received from call c, in order
DrawsOf(c) == SelectSeq(canvas, LAMBDA d : d.call = c)
LinesOf(c) == [i \in 1..Len(DrawsOf(c)) |-> DrawsOf(c)[i].line_text]

\* the text of call c fits at size s
FitsAt(c, s) ==
    /\ LineHeight(s, line_spacing) > 0
    /\ Fits(text, s, rect_width, rect_height[c], line_spacing)

WrapAt(c, s) == Wrap(text, s, rect_width, rect_height[c], line_spacing)
MaxLinesAt(c, s) ==
    MaxLinesPossible(rect_height[c], LineHeight(s, line_spacing))

Range(f) == {f[i] : i \in DOMAIN f}

\* n / 2 truncated toward zero equals y
IsHalfTruncated(n, y) ==
    \/ 2 * y = n
    \/ n > 0 /\ 2 * y = n - 1
    \/ n < 0 /\ 2 * y = n + 1

\* call c drew at least two lines and none of them is empty
DrewWords(c) ==
    /\ Len(DrawsOf(c)) >= 2
    /\ \A i \in 1..Len(DrawsOf(c)) : "a" \in Range(DrawsOf(c)[i].line_text)

RECURSIVE Flatten(_)
Flatten(seqs) ==
    IF seqs = <<>> THEN <<>> ELSE Head(seqs) \o Flatten(Tail(seqs))

(* ------------------------------ claims -------------------------------- *)

\* C1: an accepted result is laid out at a size s <= the requested size at
\* which the text fits, and the text fits at no size above s up to the
\* requested size (the search goes down one size at a time); a text that
\* fits at the requested size is laid out at the requested size.
C1_LinearDownwardSearch ==
    \A c \in Calls :
        /\ Accepted(c) =>
              /\ 1 <= Size(c) /\ Size(c) <= start_size[c]
              /\ FitsAt(c, Size(c))
              /\ \A s \in (Size(c) + 1)..start_size[c] : ~FitsAt(c, s)
        /\ (Finished(c) /\ FitsAt(c, start_size[c])) =>
              (Accepted(c) /\ Size(c) = start_size[c])

C1_Witness ==
    /\ Accepted(1)
    /\ start_size[1] = 3
    /\ Size(1) = 1
    /\ DrewWords(1)

\* C2: the lines of an accepted result, joined by one space, are the input
\* text, and their words are the words of text.split(" ") in order, empty
\* words included; a size at which max_lines lines are produced with a word
\* left over is not the accepted size.
C2_NoTruncation ==
    \A c \in Calls :
        Accepted(c) =>
            /\ Join(LinesOf(c)) = text
            /\ Flatten([i \in 1..Len(LinesOf(c)) |-> Split(LinesOf(c)[i])])
                   = Split(text)
            /\ \A s \in 1..start_size[c] :
                   ( /\ LineHeight(s, line_spacing) > 0
                     /\ Len(WrapAt(c, s).text_lines) = MaxLinesAt(c, s)
                     /\ Len(WrapAt(c, s).remaining_words) > 0 )
                   => Size(c) # s

C2_Witness ==
    /\ Accepted(1)
    /\ Len(text) = 3 /\ text[1] = " " /\ text[3] = "a"
    /\ Len(DrawsOf(1)) >= 2
    /\ Size(1) < start_size[1]
    /\ \E s \in (Size(1) + 1)..start_size[1] :
           /\ MaxLinesAt(1, s) >= 1
           /\ Len(WrapAt(1, s).text_lines) = MaxLinesAt(1, s)
           /\ Len(WrapAt(1, s).remaining_words) > 0

\* C3: when no size from the requested size down to 1 fits, the call returns
\* None and does not raise; it returns None only when no size fits.
\* (Stated for a rectangle of positive width and height and for the sizes at
\* which the fit test is defined: line_height >= 1.)
C3_ExhaustionReturnsNone ==
    \A c \in Calls :
        /\ ( /\ Finished(c)
             /\ rect_width > 0 /\ rect_height[c] > 0
             /\ \A s \in 1..start_size[c] :
                    LineHeight(s, line_spacing) > 0 /\ ~FitsAt(c, s) )
               => ReturnedNone(c)
        /\ ReturnedNone(c) => \A s \in 1..start_size[c] : ~FitsAt(c, s)

\* C4: a rectangle of non-positive width or height makes the call return
\* None, without raising, for every text, size and alignment.
\* (Stated for the line spacings that give every size a line_height >= 1.)
C4_MalformedRectangleReturnsNone ==
    \A c \in Calls :
        ( /\ Finished(c)
          /\ rect_width <= 0 \/ rect_height[c] <= 0
          /\ \A s \in 1..start_size[c] : LineHeight(s, line_spacing) > 0 )
            => ReturnedNone(c)


\* every word of the text measures at most rect_width at size s
WordsFitWidth(s) ==
    \A i \in 1..Len(Split(text)) : Measure(Split(text)[i], s) <= rect_width

\* C5 as stated: whenever some size from 1 to the requested size makes the
\* longest word no wider than the rectangle, a call that returns returns a
\* non-null result.  (Stated for a rectangle of positive width and height.)
C5_WordFitsGivesResult ==
    \A c \in Calls :
        ( /\ pc[c] = "returned"
          /\ rect_width > 0 /\ rect_height[c] > 0
          /\ \E s \in 1..start_size[c] : WordsFitWidth(s) )
            => result[c].ok

\* C5 amended: when at some size s from 1 to the requested size every word
\* measures at most rect_width and the rectangle is high enough for one line
\* per word (line_height >= 1 and floor(rect_height / line_height) >= number
\* of words), the call ends with a non-null result laid out at a size >= s.
C5_WordsAndHeightGiveResult ==
    \A c \in Calls :
        \A s \in 1..start_size[c] :
            ( /\ Finished(c)
              /\ LineHeight(s, line_spacing) > 0
              /\ WordsFitWidth(s)
              /\ MaxLinesAt(c, s) >= Len(Split(text)) )
                => (Accepted(c) /\ Size(c) >= s)

C5_Witness ==
    /\ Accepted(1)
    /\ Len(Split(text)) >= 2
    /\ Size(1) < start_size[1]
    /\ WordsFitWidth(Size(1))
    /\ MaxLinesAt(1, Size(1)) = Len(Split(text))
    /\ \E i \in 1..Len(Split(text)) :
           Measure(Split(text)[i], Size(1)) = rect_width
    /\ ~WordsFitWidth(Size(1) + 1)

\* what a call hands back: how it ended, the value, the exception, the size
\* of the font it ended with and the draw calls it issued
Outcome(c) ==
    [pc |-> pc[c], result |-> result[c], error |-> error[c],
     size |-> Size(c),
     draws |-> [i \in 1..Len(DrawsOf(c)) |->
                   [x |-> DrawsOf(c)[i].x, y |-> DrawsOf(c)[i].y,
                    line_text |-> DrawsOf(c)[i].line_text,
                    size |-> fonts[DrawsOf(c)[i].font]]]]

\* C6: a second call with the same text, font, rectangle, alignments and
\* line spacing ends as the first did: the same accepted size, draw calls
\* and bounds, or None both times; and it is handed the font at the size the
\* first call was handed it.
C6_Deterministic ==
    (Finished(1) /\ Finished(2) /\ rect_height[2] = rect_height[1]) =>
        /\ Outcome(2) = Outcome(1)
        /\ start_size[2] = start_size[1]
        /\ fonts[DefaultFont] = start_size[1]

C6_Witness ==
    /\ Accepted(1) /\ Accepted(2)
    /\ rect_height[2] = rect_height[1]
    /\ Size(1) < start_size[1]
    /\ DrewWords(1)
    /\ DrewWords(2)
    /\ horizontal_alignment = "center"
    /\ vertical_alignment = "center"

\* C7: of two requests that differ only in height, the lower rectangle is
\* never given the larger size, and gets no result when the higher gets none.
C7_MonotoneInHeight ==
    (Finished(1) /\ Finished(2) /\ rect_height[2] < rect_height[1]) =>
        /\ (Accepted(1) /\ Accepted(2)) => Size(2) <= Size(1)
        /\ ReturnedNone(1) => ReturnedNone(2)
        /\ ~Accepted(1) => ~Accepted(2)

C7_Witness ==
    /\ Accepted(1) /\ Accepted(2)
    /\ rect_height[2] < rect_height[1]
    /\ Size(2) < Size(1)
    /\ "a" \in Range(text)
    /\ line_spacing = <<11, 10>>

\* C8: the first line of an accepted result is drawn at start_y, which is
\* rect.top for top alignment and, for center alignment, rect.top +
\* rect_height/2 - num_lines*line_height/2 - (line_height - size)/2 truncated
\* toward zero; 2 lines of height 20 at size 18 in a rectangle of height 100
\* at top 0 start at 29.
C8_StartY ==
    /\ StartY(0, 100, 2, 20, 18, "center") = 29
    /\ \A c \in Calls :
          Accepted(c) =>
              LET n == Len(DrawsOf(c))
                  lh == LineHeight(Size(c), line_spacing)
                  y1 == DrawsOf(c)[1].y
              IN /\ n >= 1
                 /\ vertical_alignment = "top" => y1 = rect_top
                 /\ vertical_alignment = "center" =>
                        IsHalfTruncated(2 * rect_top + rect_height[c] - n * lh
                                        - (lh - Size(c)), y1)

C8_Witness ==
    /\ Accepted(1)
    /\ vertical_alignment = "center"
    /\ DrewWords(1)
    /\ LineHeight(Size(1), line_spacing) # Size(1)
    /\ LET n == Len(DrawsOf(1))
           lh == LineHeight(Size(1), line_spacing)
           num == 2 * rect_top + rect_height[1] - n * lh - (lh - Size(1))
       IN num < 0 /\ num % 2 = 1

\* C9: the lines of an accepted result are drawn in wrap order, line i
\* (from 0) at y = start_y + i*line_height, and at x = rect.left for left
\* alignment or rect.left + rect_width/2 - line_width/2 truncated toward zero
\* for center alignment, line_width measured at the accepted size.
C9_LinePositions ==
    \A c \in Calls :
        Accepted(c) =>
            LET d == DrawsOf(c)
                lh == LineHeight(Size(c), line_spacing)
            IN /\ LinesOf(c) = WrapAt(c, Size(c)).text_lines
               /\ \A i \in 1..Len(d) :
                     /\ d[i].y = d[1].y + (i - 1) * lh
                     /\ fonts[d[i].font] = Size(c)
                     /\ horizontal_alignment = "left" => d[i].x = rect_left
                     /\ horizontal_alignment = "center" =>
                            IsHalfTruncated(
                                2 * rect_left + rect_width
                                    - Measure(d[i].line_text, Size(c)),
                                d[i].x)

C9_Witness ==
    /\ Accepted(1)
    /\ horizontal_alignment = "center"
    /\ Len(DrawsOf(1)) >= 2
    /\ "a" \in Range(DrawsOf(1)[1].line_text)
    /\ DrawsOf(1)[1].x # DrawsOf(1)[2].x
    /\ \E i \in 1..Len(DrawsOf(1)) :
           LET num == 2 * rect_left + rect_width
                          - Measure(DrawsOf(1)[i].line_text, Size(1))
           IN num < 0 /\ num % 2 = 1

\* C10: the bounds returned with an accepted result are (min x, start_y,
\* max of x + line_width, start_y + num_lines*line_height) over the drawn
\* lines; the seeds rect.right and rect.left never show in them.
C10_ActualBounds ==
    \A c \in Calls :
        Accepted(c) =>
            LET d == DrawsOf(c)
                lh == LineHeight(Size(c), line_spacing)
                b == result[c].text_bounds
                right(i) == d[i].x + Measure(d[i].line_text, Size(c))
            IN /\ Len(d) >= 1
               /\ \A i \in 1..Len(d) : b[1] <= d[i].x /\ right(i) <= b[3]
               /\ \E i \in 1..Len(d) : b[1] = d[i].x
               /\ \E i \in 1..Len(d) : b[3] = right(i)
               /\ b[2] = d[1].y
               /\ b[4] = d[1].y + Len(d) * lh

C10_Witness ==
    /\ Accepted(1)
    /\ horizontal_alignment = "center"
    /\ Len(DrawsOf(1)) >= 2
    /\ "a" \in Range(DrawsOf(1)[1].line_text)
    /\ DrawsOf(1)[1].x # DrawsOf(1)[2].x
    /\ result[1].text_bounds[1] > rect_left
    /\ result[1].text_bounds[3] - result[1].text_bounds[1] < rect_width


\* the words of the text of the calls
Words == Split(text)

\* call c has been entered and has not tried a size yet
Entered(c) == pc[c] = "loop" /\ current_font[c] = DefaultFont

\* C11: at a size where the first word of a new line is wider than rect_width
\* the wrap stops with that word unplaced and no line for it, and that size
\* is not the accepted one; the lines of an accepted result are made of
\* whole words of the text, none wider than rect_width, and there are no more
\* lines than words.
C11_TooWideWordRejectsSize ==
    \A c \in Calls :
        /\ Entered(c) =>
              \A s \in 1..start_size[c] :
                  LET w == WrapAt(c, s) IN
                  ( /\ LineHeight(s, line_spacing) > 0
                    /\ Len(w.text_lines) < MaxLinesAt(c, s)
                    /\ Len(w.remaining_words) > 0 )
                  => /\ Measure(w.remaining_words[1], s) > rect_width
                     /\ Flatten([i \in 1..Len(w.text_lines) |->
                                    Split(w.text_lines[i])])
                            \o w.remaining_words = Words
                     /\ ~FitsAt(c, s)
        /\ Accepted(c) =>
              /\ WrapAt(c, Size(c)).remaining_words = <<>>
              /\ \A i \in 1..Len(Words) :
                     Measure(Words[i], Size(c)) <= rect_width
              /\ Flatten([i \in 1..Len(LinesOf(c)) |-> Split(LinesOf(c)[i])])
                     = Words
              /\ Len(LinesOf(c)) <= Len(Words)

C11_Witness ==
    /\ Accepted(1)
    /\ "a" \in Range(text)
    /\ \E s \in (Size(1) + 1)..start_size[1] :
           LET w == WrapAt(1, s) IN
           /\ LineHeight(s, line_spacing) > 0
           /\ Len(w.text_lines) >= 1
           /\ Len(w.text_lines) < MaxLinesAt(1, s)
           /\ Len(w.remaining_words) > 0
           /\ Measure(w.remaining_words[1], s) > rect_width

\* C12: in an accepted result every line but the last is full: with the
\* first word of the next line appended after one space it would measure
\* more than rect_width at the accepted size.
C12_GreedyLines ==
    \A c \in Calls :
        Accepted(c) =>
            \A i \in 1..(Len(LinesOf(c)) - 1) :
                Measure(LinesOf(c)[i] \o <<" ">>
                            \o Split(LinesOf(c)[i + 1])[1], Size(c))
                    > rect_width

C12_Witness ==
    /\ Accepted(1)
    /\ Len(LinesOf(1)) = 2
    /\ "a" \in Range(LinesOf(1)[1])
    /\ "a" \in Range(LinesOf(1)[2])
    /\ Measure(LinesOf(1)[1], Size(1)) < rect_width

\* C13: every line of an accepted result measures at most rect_width at the
\* accepted size.
C13_LinesWithinWidth ==
    \A c \in Calls :
        Accepted(c) =>
            \A i \in 1..Len(LinesOf(c)) :
                Measure(LinesOf(c)[i], Size(c)) <= rect_width

C13_Witness ==
    /\ Accepted(1)
    /\ Len(LinesOf(1)) >= 2
    /\ Measure(LinesOf(1)[1], Size(1)) = rect_width
    /\ Len(Split(LinesOf(1)[1])) = 2
    /\ "a" \in Range(LinesOf(1)[1])

\* lh is floor(size * line_spacing)
IsLineHeight(lh, size) ==
    /\ lh * line_spacing[2] <= size * line_spacing[1]
    /\ size * line_spacing[1] < (lh + 1) * line_spacing[2]

\* ml is floor(height / lh), lh > 0
IsMaxLines(ml, height, lh) == ml * lh <= height /\ height < (ml + 1) * lh

InitConcurrent ==
    /\ fonts \in {<<s>> : s \in FontSizes}
    /\ truetype_zero = "unknown"
    /\ text \in Texts
    /\ rect_width \in Widths
    /\ rect_height \in {h \in [Calls -> Heights] : h[1] <= h[2]}
    /\ line_spacing = <<11, 10>>
    /\ layout_chosen = TRUE
    /\ rect_left = 0
    /\ rect_top = 0
    /\ horizontal_alignment = "left"
    /\ vertical_alignment = "top"
    /\ pc = [c \in Calls |-> "idle"]
    /\ current_font = [c \in Calls |-> DefaultFont]
    /\ start_size = [c \in Calls |-> 0]
    /\ result = [c \in Calls |-> NoResult]
    /\ error = [c \in Calls |-> "none"]
    /\ canvas = <<>>
    /\ comic = NoComic
    /\ weather = NoWeather
    /\ route = NoRoute
    /\ dims = NoDims

\* a request thread reaches its call of render_text_in_rectangle
CallConcurrent(c) ==
    /\ pc[c] = "idle"
    /\ Enter(c)
    /\ UNCHANGED <<fonts, truetype_zero, text, rect_width, rect_height,
                   line_spacing, layout_chosen, rect_left, rect_top,
                   horizontal_alignment, vertical_alignment, result, error,
                   canvas>>
    /\ UNCHANGED service_vars

\* (at the default line spacing int(size * 1.1) >= 1 for every size >= 1,
\* so the division at line 128 cannot fail here)
NextConcurrent ==
    \/ \E c \in Calls : CallConcurrent(c)
    \/ \E c \in Calls : LoopExit(c)
    \/ \E c \in Calls : Accept(c)
    \/ \E c \in Calls : Retry(c)
    \/ \E c \in Calls : RetryRaise(c)

SpecConcurrent == InitConcurrent /\ [][NextConcurrent]_vars

\* how call c ends when it runs alone from size s
RECURSIVE Alone(_, _)
Alone(c, s) ==
    IF s <= 0
    THEN [pc |-> "returned", ok |-> FALSE, error |-> "none", size |-> s]
    ELSE IF LineHeight(s, line_spacing) = 0
    THEN [pc |-> "raised", ok |-> FALSE, error |-> "ZeroDivisionError",
          size |-> s]
    ELSE IF FitsAt(c, s)
    THEN [pc |-> "returned", ok |-> TRUE, error |-> "none", size |-> s]
    ELSE IF s - 1 <= 0 /\ truetype_zero = "raises"
    THEN [pc |-> "raised", ok |-> FALSE, error |-> "ValueError", size |-> s]
    ELSE Alone(c, s - 1)

\* call c ended as it ends alone: the same return or exception, the same
\* size, bounds and draw calls
EndedAsAlone(c, start) ==
    LET a == Alone(c, start) IN
    /\ pc[c] = a.pc
    /\ error[c] = a.error
    /\ result[c].ok = a.ok
    /\ Size(c) = a.size
    /\ LET lay == IF a.ok
                  THEN Layout(c, WrapAt(c, a.size).text_lines, rect_left,
                              rect_top, horizontal_alignment,
                              vertical_alignment)
                  ELSE [text_bounds |-> NoResult.text_bounds, drawn |-> <<>>]
       IN /\ result[c].text_bounds = lay.text_bounds
          /\ DrawsOf(c) = lay.drawn

\* C15: with two calls interleaved on the shared default font, the shared
\* handle keeps the size it had, every call starts from that size, and each
\* call that ended did so exactly as it would have alone.
C15_ConcurrentCallsAsAlone ==
    \A c \in Calls :
        /\ Len(fonts) >= DefaultFont
        /\ pc[c] # "idle" => start_size[c] = fonts[DefaultFont]
        /\ (pc[1] # "idle" /\ pc[2] # "idle") => start_size[1] = start_size[2]
        /\ Finished(c) => EndedAsAlone(c, fonts[DefaultFont])

\* both calls shrank the font, the second one between two shrinks of the
\* first, and both drew their text
C15_Witness ==
    /\ Accepted(1) /\ Accepted(2)
    /\ Len(fonts) = 4
    /\ current_font[2] = 3
    /\ current_font[1] = 4
    /\ Size(1) < Size(2)
    /\ Size(2) < fonts[DefaultFont]
    /\ "a" \in Range(text)

(* -------------------- ComicService.generate_comic_image ---------------- *)

\* "www.asofterworld.com": one word, no space in it
Attribution == <<"a", "a">>

\* sides of the QR code image, which is square
QrSizes == 1..MaxHeight

\* heights of the strip under the QR code (Config.QR_CODE_BOTTOM_OFFSET)
FooterHeights == 1..MaxHeight

\* a request before its first statement, the service's font created
InitComic ==
    /\ fonts \in {<<s>> : s \in FontSizes}
    /\ truetype_zero = "unknown"
    /\ text = <<>>
    /\ rect_width = 0
    /\ rect_height = [c \in Calls |-> 0]
    /\ line_spacing = <<11, 10>>
    /\ layout_chosen = TRUE
    /\ rect_left = 0
    /\ rect_top = 0
    /\ horizontal_alignment = "left"
    /\ vertical_alignment = "top"
    /\ pc = [c \in Calls |-> "idle"]
    /\ current_font = [c \in Calls |-> DefaultFont]
    /\ start_size = [c \in Calls |-> 0]
    /\ result = [c \in Calls |-> NoResult]
    /\ error = [c \in Calls |-> "none"]
    /\ canvas = <<>>
    /\ comic = NoComic
    /\ weather = NoWeather
    /\ route = NoRoute
    /\ dims = NoDims

render_vars ==
    <<fonts, truetype_zero, text, rect_width, rect_height, line_spacing,
      layout_chosen, rect_left, rect_top, horizontal_alignment,
      vertical_alignment, pc, current_font, start_size, result, error,
      canvas>>

\* comic_metadata = self.fetch_comic_metadata(comic_number)
FetchMetadata ==
    /\ comic.stage = "idle"
    /\ \E img \in BOOLEAN, alt \in Texts :
          comic' = [comic EXCEPT !.stage = "fetched", !.has_img = img,
                                 !.alt_text = alt]
    /\ UNCHANGED render_vars
    /\ UNCHANGED <<weather, route, dims>>

\* if not img_url: raise ValueError
RaiseNoImage ==
    /\ comic.stage = "fetched"
    /\ ~comic.has_img
    /\ comic' = [comic EXCEPT !.stage = "raised", !.error = "ValueError"]
    /\ UNCHANGED render_vars
    /\ UNCHANGED <<weather, route, dims>>

\* the comic is downloaded and scaled, the QR code made, the text area
\* computed, the canvas created, the comic and the QR code pasted
Compose ==
    /\ comic.stage = "fetched"
    /\ comic.has_img
    /\ \E w \in Widths, q \in QrSizes, f \in FooterHeights :
          comic' = [comic EXCEPT !.stage = "composed",
                                 !.text_area_width = w,
                                 !.qr_size = q,
                                 !.footer_height = f,
                                 !.pasted = <<"comic", "qr">>]
    /\ UNCHANGED render_vars
    /\ UNCHANGED <<weather, route, dims>>

\* if alt_text: is false
SkipAlt ==
    /\ comic.stage = "composed"
    /\ comic.alt_text = <<>>
    /\ comic' = [comic EXCEPT !.stage = "alt_done"]
    /\ UNCHANGED render_vars
    /\ UNCHANGED <<weather, route, dims>>

\* render_text_in_rectangle(drawing_context, alt_text, self.default_font, ...)
CallAlt ==
    /\ comic.stage = "composed"
    /\ comic.alt_text # <<>>
    /\ text' = comic.alt_text
    /\ rect_width' = comic.text_area_width
    /\ rect_height' = [rect_height EXCEPT ![1] = comic.qr_size]
    /\ rect_left' = 0
    /\ rect_top' = 0
    /\ Enter(1)
    /\ comic' = [comic EXCEPT !.stage = "alt_call"]
    /\ UNCHANGED <<fonts, truetype_zero, line_spacing, layout_chosen,
                   horizontal_alignment, vertical_alignment, result, error,
                   canvas>>
    /\ UNCHANGED <<weather, route, dims>>

\* a caller that takes None for a failure
AltReturnsChecked ==
    /\ comic.stage = "alt_call"
    /\ pc[1] = "returned"
    /\ comic' = IF result[1].ok
                THEN [comic EXCEPT !.stage = "alt_done"]
                ELSE [comic EXCEPT !.stage = "raised",
                                   !.error = "DoesNotFit"]
    /\ UNCHANGED render_vars
    /\ UNCHANGED <<weather, route, dims>>

\* the call returns; its value is not looked at
AltReturns ==
    /\ comic.stage = "alt_call"
    /\ pc[1] = "returned"
    /\ comic' = [comic EXCEPT !.stage = "alt_done"]
    /\ UNCHANGED render_vars
    /\ UNCHANGED <<weather, route, dims>>

\* an exception of the call leaves generate_comic_image
AltRaises ==
    /\ comic.stage = "alt_call"
    /\ pc[1] = "raised"
    /\ comic' = [comic EXCEPT !.stage = "raised", !.error = error[1]]
    /\ UNCHANGED render_vars
    /\ UNCHANGED <<weather, route, dims>>

\* render_text_in_rectangle(drawing_context, "www.asofterworld.com", ...)
CallAttribution ==
    /\ comic.stage = "alt_done"
    /\ text' = Attribution
    /\ rect_width' = comic.qr_size
    /\ rect_height' = [rect_height EXCEPT ![2] = comic.footer_height]
    /\ rect_left' = comic.text_area_width
    /\ rect_top' = comic.qr_size
    /\ Enter(2)
    /\ comic' = [comic EXCEPT !.stage = "attribution_call"]
    /\ UNCHANGED <<fonts, truetype_zero, line_spacing, layout_chosen,
                   horizontal_alignment, vertical_alignment, result, error,
                   canvas>>
    /\ UNCHANGED <<weather, route, dims>>

\* the call returns, the canvas is saved as JPEG, (img_io, comic_metadata)
\* is returned
SaveAndReturn ==
    /\ comic.stage = "attribution_call"
    /\ pc[2] = "returned"
    /\ comic' = [comic EXCEPT !.stage = "returned", !.encoded = TRUE,
                              !.returned = "image_and_metadata"]
    /\ UNCHANGED render_vars
    /\ UNCHANGED <<weather, route, dims>>

AttributionRaises ==
    /\ comic.stage = "attribution_call"
    /\ pc[2] = "raised"
    /\ comic' = [comic EXCEPT !.stage = "raised", !.error = error[2]]
    /\ UNCHANGED render_vars
    /\ UNCHANGED <<weather, route, dims>>

\* (line heights are >= 1 at the default line spacing, as above)
NextComic ==
    \/ FetchMetadata
    \/ RaiseNoImage
    \/ Compose
    \/ SkipAlt
    \/ CallAlt
    \/ AltReturns
    \/ AltRaises
    \/ CallAttribution
    \/ SaveAndReturn
    \/ AttributionRaises
    \/ \E c \in Calls : LoopExit(c)
    \/ \E c \in Calls : Accept(c)
    \/ \E c \in Calls : Retry(c)
    \/ \E c \in Calls : RetryRaise(c)

SpecComic == InitComic /\ [][NextComic]_vars

\* C16: generate_comic_image returns the encoded image and the metadata,
\* with the comic and the QR code pasted, whatever its render calls
\* returned: a call that returned None drew nothing, a call that returned
\* bounds drew its lines; the request fails only on an exception (no image
\* URL, or one raised inside a render call), never on a None.
C16_NoneIsNotAnError ==
    /\ comic.stage = "returned" =>
          /\ comic.pasted = <<"comic", "qr">>
          /\ comic.encoded
          /\ comic.returned = "image_and_metadata"
          /\ pc[2] = "returned"
          /\ pc[1] = IF comic.alt_text = <<>> THEN "idle" ELSE "returned"
    /\ \A c \in Calls :
          /\ ReturnedNone(c) =>
                /\ DrawsOf(c) = <<>>
                /\ comic.stage \in {"alt_call", "alt_done", "attribution_call",
                                    "returned"}
          /\ Accepted(c) => DrawsOf(c) # <<>>
    /\ comic.stage = "raised" =>
          /\ comic.error \in {"ValueError", "ZeroDivisionError"}
          /\ \/ ~comic.has_img
             \/ \E c \in Calls : pc[c] = "raised" /\ error[c] = comic.error
          /\ comic.returned = "nothing"

\* the alt text fitted at no size and is missing; the image was returned
\* with the comic, the QR code and the attribution
C16_Witness ==
    /\ comic.stage = "returned"
    /\ "a" \in Range(comic.alt_text)
    /\ ReturnedNone(1)
    /\ Accepted(2)
    /\ LinesOf(2) = <<Attribution>>

(* ----------------------- GET /weather/<zipcode> ------------------------ *)

\* the renderer and the comic service at rest
RenderIdle ==
    /\ fonts = <<MaxFontSize>>
    /\ truetype_zero = "unknown"
    /\ text = <<>>
    /\ rect_width = 0
    /\ rect_height = [c \in Calls |-> 0]
    /\ line_spacing = <<11, 10>>
    /\ layout_chosen = FALSE
    /\ rect_left = 0
    /\ rect_top = 0
    /\ horizontal_alignment = "left"
    /\ vertical_alignment = "top"
    /\ pc = [c \in Calls |-> "idle"]
    /\ current_font = [c \in Calls |-> DefaultFont]
    /\ start_size = [c \in Calls |-> 0]
    /\ result = [c \in Calls |-> NoResult]
    /\ error = [c \in Calls |-> "none"]
    /\ canvas = <<>>
    /\ comic = NoComic

\* values of the path parameter and of the query arguments
Zipcodes == {"94110", "00000"}
ViewArgs == {"absent", "0", "1", "2", "3", "", "01", "current"}
FrameArgs == {"absent", "true", "True", "false", "yes"}

\* a view list that lets one more value through
ValidViewsLoose == {"0", "1", "2", "3"}

\* ['0', '1', '2']
ValidViews == {"0", "1", "2"}

\* request.args.get('frame', 'true').lower() == 'true'
AddFrame(frame) == frame \in {"absent", "true", "True"}

InitWeather ==
    /\ RenderIdle
    /\ weather = NoWeather
    /\ route = NoRoute
    /\ dims = NoDims

weather_unchanged == <<render_vars, comic, route, dims>>

\* a request reaches get_weather
ReceiveWeather ==
    /\ weather.stage = "idle"
    /\ \E z \in Zipcodes, v \in ViewArgs, f \in FrameArgs :
          weather' = [weather EXCEPT !.stage = "received", !.zipcode = z,
                                     !.view = v, !.frame = f]
    /\ UNCHANGED weather_unchanged

\* the optional parameters are read (width and height, read with type=int,
\* are None unless they are integers; they are passed on as they are)
ReadArgs ==
    /\ weather.stage = "received"
    /\ weather' = [weather EXCEPT
                      !.stage = "parsed",
                      !.view_option = IF weather.view = "absent" THEN "0"
                                      ELSE weather.view,
                      !.add_frame = AddFrame(weather.frame)]
    /\ UNCHANGED weather_unchanged

\* the view option is not one of the three: 400
RejectView ==
    /\ weather.stage = "parsed"
    /\ weather.view_option \notin ValidViews
    /\ weather' = [weather EXCEPT !.stage = "responded", !.status = 400,
                                  !.body = "error"]
    /\ UNCHANGED weather_unchanged

\* get_weather_image_as_bytes calls fetch_weather_image, which returns the
\* image or raises
FetchWeather ==
    /\ weather.stage = "parsed"
    /\ weather.view_option \in ValidViews
    /\ \E ok \in BOOLEAN :
          weather' = [weather EXCEPT
                         !.stage = IF ok THEN "fetched" ELSE "excepted",
                         !.raised = IF ok THEN "none" ELSE "fetch",
                         !.fetches = weather.fetches + 1]
    /\ UNCHANGED weather_unchanged

\* weather_image.save(img_io, 'JPEG') returns or raises
EncodeWeather ==
    /\ weather.stage = "fetched"
    /\ \E ok \in BOOLEAN :
          weather' = [weather EXCEPT
                         !.stage = IF ok THEN "encoded" ELSE "excepted",
                         !.raised = IF ok THEN "none" ELSE "encode"]
    /\ UNCHANGED weather_unchanged

\* send_file(img_io, mimetype='image/jpeg', ...)
SendWeather ==
    /\ weather.stage = "encoded"
    /\ weather' = [weather EXCEPT !.stage = "responded", !.status = 200,
                                  !.body = "image"]
    /\ UNCHANGED weather_unchanged

\* except Exception as e: 500
WeatherError ==
    /\ weather.stage = "excepted"
    /\ weather' = [weather EXCEPT !.stage = "responded", !.status = 500,
                                  !.body = "error"]
    /\ UNCHANGED weather_unchanged

NextWeather ==
    \/ ReceiveWeather
    \/ ReadArgs
    \/ RejectView
    \/ FetchWeather
    \/ EncodeWeather
    \/ SendWeather
    \/ WeatherError

SpecWeather == InitWeather /\ [][NextWeather]_vars

\* the view value the handler works with is one of "0", "1", "2"
ViewIsValid ==
    \/ weather.view = "absent"
    \/ weather.view = "0"
    \/ weather.view = "1"
    \/ weather.view = "2"

\* C17: a request with a view outside "0", "1", "2" never reaches the
\* weather service and is answered 400 with an error body; with a valid
\* view, an exception while fetching or encoding is answered 500 with an
\* error body, and otherwise the image is sent with 200.
C17_WeatherViewAndErrors ==
    /\ weather.stage \notin {"idle", "received"} /\ ~ViewIsValid =>
          /\ weather.fetches = 0
          /\ weather.stage \in {"parsed", "responded"}
          /\ weather.stage = "responded" =>
                weather.status = 400 /\ weather.body = "error"
    /\ weather.stage = "responded" /\ ViewIsValid =>
          /\ weather.fetches = 1
          /\ weather.raised \in {"fetch", "encode"} =>
                weather.status = 500 /\ weather.body = "error"
          /\ weather.raised = "none" =>
                weather.status = 200 /\ weather.body = "image"
    /\ weather.stage = "excepted" => weather.raised \in {"fetch", "encode"}

C17_Witness ==
    /\ weather.stage = "responded"
    /\ weather.view = "3"
    /\ weather.status = 400
    /\ weather.fetches = 0

(* ------------------------- the routes of the app ----------------------- *)

MaxSegments == 3

\* the segments request paths are made of
Segments ==
    {"comic", "weather", "info", "12", "94110", "600x448", "current",
     "today", "forecast"}

\* "/" is <<>>, "/comic/12" is <<"comic", "12">>
Paths == UNION {[1..n -> Segments] : n \in 0..MaxSegments}

\* the segments the int converter accepts: digits only
IsInt(segment) == segment \in {"12", "94110"}

\* the rules of health_bp
HealthRules == {[rule |-> <<>>, endpoint |-> "health.health_check"]}

\* the rules of comics_bp
ComicsRules ==
    {[rule |-> <<>>, endpoint |-> "comics.random_comic"],
     [rule |-> <<"<int>">>, endpoint |-> "comics.specific_comic"],
     [rule |-> <<"info", "<int>">>, endpoint |-> "comics.comic_info"]}

\* the rules of weather_bp
WeatherRules ==
    {[rule |-> <<"<string>">>, endpoint |-> "weather.get_weather"],
     [rule |-> <<"<string>", "current">>,
      endpoint |-> "weather.get_current_weather"],
     [rule |-> <<"<string>", "today">>,
      endpoint |-> "weather.get_today_weather"],
     [rule |-> <<"<string>", "forecast">>,
      endpoint |-> "weather.get_forecast_weather"]}

\* register_blueprint(blueprint, url_prefix=...)
Registered(rules, url_prefix) ==
    {[rule |-> url_prefix \o r.rule, endpoint |-> r.endpoint] : r \in rules}

\* the url map create_app builds
UrlMap ==
    Registered(HealthRules, <<>>)
        \cup Registered(ComicsRules, <<"comic">>)
        \cup Registered(WeatherRules, <<"weather">>)

\* one part of a rule against one segment of a path
PartMatches(part, segment) ==
    IF part = "<int>" THEN IsInt(segment)
    ELSE IF part = "<string>" THEN TRUE
    ELSE part = segment

RuleMatches(rule, path) ==
    /\ Len(rule) = Len(path)
    /\ \A i \in 1..Len(rule) : PartMatches(rule[i], path[i])

\* the endpoint a path is dispatched to, "none" when no rule matches
Dispatch(path) ==
    LET matching == {r \in UrlMap : RuleMatches(r.rule, path)} IN
    IF matching = {} THEN "none" ELSE (CHOOSE r \in matching : TRUE).endpoint

\* the 'endpoints' of the health check response
Advertised ==
    {<<>>,
     <<"comic">>,
     <<"comic", "<number>">>,
     <<"comic", "<number>", "<dimensions>">>,
     <<"weather", "<zipcode>">>,
     <<"weather", "<zipcode>", "current">>,
     <<"weather", "<zipcode>", "today">>,
     <<"weather", "<zipcode>", "forecast">>}

\* a path is an instance of an advertised pattern: a number for <number>,
\* any segment for <dimensions> and <zipcode>
IsInstance(path, pattern) ==
    /\ Len(path) = Len(pattern)
    /\ \A i \in 1..Len(path) :
          IF pattern[i] = "<number>" THEN IsInt(path[i])
          ELSE IF pattern[i] \in {"<dimensions>", "<zipcode>"} THEN TRUE
          ELSE pattern[i] = path[i]

InitRoutes ==
    /\ RenderIdle
    /\ weather = NoWeather
    /\ route = NoRoute
    /\ dims = NoDims

route_unchanged == <<render_vars, comic, weather, dims>>

\* a GET request for a path arrives
RequestPath ==
    /\ route.stage = "idle"
    /\ \E path \in Paths :
          route' = [route EXCEPT !.stage = "requested", !.path = path]
    /\ UNCHANGED route_unchanged

\* the url map finds the view function of the path
DispatchFound ==
    /\ route.stage = "requested"
    /\ Dispatch(route.path) # "none"
    /\ route' = [route EXCEPT !.stage = "dispatched",
                              !.endpoint = Dispatch(route.path)]
    /\ UNCHANGED route_unchanged

\* no rule matches: 404
DispatchNotFound ==
    /\ route.stage = "requested"
    /\ Dispatch(route.path) = "none"
    /\ route' = [route EXCEPT !.stage = "not_found", !.status = 404]
    /\ UNCHANGED route_unchanged

NextRoutes ==
    \/ RequestPath
    \/ DispatchFound
    \/ DispatchNotFound

SpecRoutes == InitRoutes /\ [][NextRoutes]_vars

\* C18: a request whose path is an instance of a pattern advertised by the
\* health check is never answered 404 for want of a route.
C18_AdvertisedIsRegistered ==
    (\E pattern \in Advertised : IsInstance(route.path, pattern))
        => route.stage # "not_found"

(* --------------------- calculate_image_dimensions ---------------------- *)

MaxOriginal == 3
MaxCanvas == 4
MaxMargin == 1

\* a side at which the float product side * (k / side) falls below k
RoundingSide == 49

\* widths and heights of the downloaded image
OriginalSides == (1..MaxOriginal) \cup {RoundingSide}

CanvasWidths == -1..MaxCanvas
CanvasHeights == 0..MaxCanvas
Margins == 0..MaxMargin

Abs(n) == IF n < 0 THEN -n ELSE n

\* int(n / d) for d > 0: truncation toward zero
Trunc(n, d) == IF n >= 0 THEN n \div d ELSE -((-n) \div d)

\* the double n * (num / den) is below the exact product in magnitude and
\* the exact product is an integer: 49 * (k / 49) for k a power of two
\* (0.9999999999999999 for k = 1). Every other product of a side in 1..8 or
\* 49 with a ratio of numerator -16..16 over such a side is exact or off by
\* less than its distance to the next integer.
RoundsBelow(n, num, den) ==
    /\ n = RoundingSide
    /\ den = RoundingSide
    /\ Abs(num) \in {1, 2, 4, 8, 16}

\* int(n * ratio), ratio the double num / den
IntOfScaled(n, ratio) ==
    LET exact == Trunc(n * ratio[1], ratio[2]) IN
    IF RoundsBelow(n, ratio[1], ratio[2])
    THEN IF exact > 0 THEN exact - 1 ELSE exact + 1
    ELSE exact

\* a ratio that takes the larger of the two
ScalingRatioLargest(original_width, original_height, canvas_width, available_height) ==
    IF canvas_width * original_height >= available_height * original_width
    THEN <<canvas_width, original_width>>
    ELSE <<available_height, original_height>>

\* min(width_ratio, height_ratio), as a fraction
ScalingRatio(original_width, original_height, canvas_width, available_height) ==
    IF canvas_width * original_height <= available_height * original_width
    THEN <<canvas_width, original_width>>
    ELSE <<available_height, original_height>>

\* min(width_ratio, height_ratio, 1.0)
ScalingRatioCapped(original_width, original_height, canvas_width, available_height) ==
    LET r == ScalingRatio(original_width, original_height, canvas_width,
                          available_height)
    IN IF r[1] > r[2] THEN <<1, 1>> ELSE r

\* the dimensions and the centred position computed from a scaling ratio
Placement(ratio, original_width, original_height, canvas_width, available_height) ==
    LET new_width == IntOfScaled(original_width, ratio)
        new_height == IntOfScaled(original_height, ratio)
    IN [new_width |-> new_width,
        new_height |-> new_height,
        offset_x |-> TruncHalf(canvas_width - new_width),
        offset_y |-> TruncHalf(available_height - new_height)]

InitDimensions ==
    /\ RenderIdle
    /\ weather = NoWeather
    /\ route = NoRoute
    /\ dims = NoDims

dims_unchanged == <<render_vars, comic, weather, route>>

\* generator_utils.calculate_image_dimensions(original_image, canvas_width,
\* canvas_height, bottom_margin)
CalculateImageDimensions ==
    /\ dims.stage = "idle"
    /\ \E ow \in OriginalSides, oh \in OriginalSides, cw \in CanvasWidths,
          ch \in CanvasHeights, bm \in Margins :
          LET available_height == ch - bm
              p == Placement(ScalingRatio(ow, oh, cw, available_height),
                             ow, oh, cw, available_height)
          IN dims' = [stage |-> "returned",
                      function |-> "calculate_image_dimensions",
                      original_width |-> ow, original_height |-> oh,
                      canvas_width |-> cw, canvas_height |-> ch,
                      bottom_margin |-> bm,
                      new_width |-> p.new_width,
                      new_height |-> p.new_height,
                      offset_x |-> p.offset_x, offset_y |-> p.offset_y]
    /\ UNCHANGED dims_unchanged

\* __main__.calculate_comic_dimensions(original_image, canvas_width,
\* canvas_height), the margin being the module's COMIC_BOTTOM_MARGIN
CalculateComicDimensions ==
    /\ dims.stage = "idle"
    /\ \E ow \in OriginalSides, oh \in OriginalSides, cw \in CanvasWidths,
          ch \in CanvasHeights, bm \in Margins :
          LET available_height == ch - bm
              p == Placement(ScalingRatioCapped(ow, oh, cw, available_height),
                             ow, oh, cw, available_height)
          IN dims' = [stage |-> "returned",
                      function |-> "calculate_comic_dimensions",
                      original_width |-> ow, original_height |-> oh,
                      canvas_width |-> cw, canvas_height |-> ch,
                      bottom_margin |-> bm,
                      new_width |-> p.new_width,
                      new_height |-> p.new_height,
                      offset_x |-> p.offset_x, offset_y |-> p.offset_y]
    /\ UNCHANGED dims_unchanged

NextDimensions ==
    \/ CalculateImageDimensions
    \/ CalculateComicDimensions

SpecDimensions == InitDimensions /\ [][NextDimensions]_vars

\* calculate_image_dimensions has returned
ImageDimensionsReturned ==
    dims.stage = "returned" /\ dims.function = "calculate_image_dimensions"

\* C19: calculate_image_dimensions returns a size no larger than the
\* original's, in width and in height.
C19_NoUpscale ==
    ImageDimensionsReturned =>
        /\ dims.new_width <= dims.original_width
        /\ dims.new_height <= dims.original_height

\* the placement lies in the available area, with leftover margins equal
\* to within one pixel on either axis
FitsAndCentred ==
    LET available_height == dims.canvas_height - dims.bottom_margin
        right == dims.canvas_width - dims.offset_x - dims.new_width
        below == available_height - dims.offset_y - dims.new_height
    IN /\ 0 <= dims.offset_x
       /\ dims.offset_x + dims.new_width <= dims.canvas_width
       /\ 0 <= dims.offset_y
       /\ dims.offset_y + dims.new_height <= available_height
       /\ Abs(dims.offset_x - right) <= 1
       /\ Abs(dims.offset_y - below) <= 1

\* C20 as stated: for canvas_height > bottom_margin >= 0 and any canvas
\* width the placement fits and is centred.
C20_FitsAndCentredAnyWidth ==
    ( /\ ImageDimensionsReturned
      /\ dims.canvas_height > dims.bottom_margin
      /\ dims.bottom_margin >= 0 )
    => FitsAndCentred

\* C20: for canvas_width >= 0 and canvas_height > bottom_margin >= 0 the
\* placement of calculate_image_dimensions fits in the available area and
\* is centred in it to within one pixel.
C20_FitsAndCentred ==
    ( /\ ImageDimensionsReturned
      /\ dims.canvas_width >= 0
      /\ dims.canvas_height > dims.bottom_margin
      /\ dims.bottom_margin >= 0 )
    => FitsAndCentred

C20_Witness ==
    /\ ImageDimensionsReturned
    /\ dims.canvas_width > 0
    /\ dims.bottom_margin > 0
    /\ dims.canvas_height > dims.bottom_margin
    /\ dims.new_width > 0 /\ dims.new_height > 0
    /\ dims.new_width < dims.original_width
    /\ dims.original_width <= MaxOriginal
    /\ dims.new_height < dims.original_height
    /\ (dims.canvas_width - dims.new_width) % 2 = 1
    /\ dims.offset_x > 0

(* ------------- the command-line copy of render_text_in_rectangle ------- *)

\* a seed whose bottom is the top of the last line
CliInitialBoundsLastLineTop(left, right, start_y, num_lines, line_height) ==
    <<right, start_y, left, start_y + (num_lines - 1) * line_height>>

\* __main__: [rectangle_bounds[2], start_y, rectangle_bounds[0],
\* start_y + len(text_lines) * line_height], without the int() of the server
\* (start_y is an int already)
CliInitialBounds(left, right, start_y, num_lines, line_height) ==
    <<right, start_y, left, start_y + num_lines * line_height>>

\* __main__: the for loop over text_lines from index i on; min and max take
\* line_x and line_x + line_width as they are
RECURSIVE CliDrawLoop(_, _, _, _, _, _, _, _)
CliDrawLoop(c, text_lines, i, line_height, left, halign, current_y, acc) ==
    IF i > Len(text_lines) THEN acc
    ELSE LET size == fonts[current_font[c]]
             line_width == Measure(text_lines[i], size)
             line_x == IF halign = "center"
                       THEN TruncHalf(2 * left + rect_width - line_width)
                       ELSE left
             b == acc.text_bounds
         IN CliDrawLoop(c, text_lines, i + 1, line_height, left, halign,
                        current_y + line_height,
                        [text_bounds |-> <<Min2(b[1], line_x), b[2],
                                           Max2(b[3], line_x + line_width),
                                           b[4]>>,
                         drawn |-> Append(acc.drawn,
                                          [x |-> line_x, y |-> current_y,
                                           line_text |-> text_lines[i],
                                           font |-> current_font[c],
                                           call |-> c])])

\* __main__: the body of the fit branch
CliLayout(c, text_lines, left, top, halign, valign) ==
    LET size == fonts[current_font[c]]
        line_height == LineHeight(size, line_spacing)
        total_text_height == Len(text_lines) * line_height
        start_y == IF valign = "top" THEN top
                   ELSE TruncHalf(2 * top + rect_height[c] - total_text_height
                                  - (line_height - size))
    IN CliDrawLoop(c, text_lines, 1, line_height, left, halign, start_y,
                   [text_bounds |-> CliInitialBounds(left, left + rect_width,
                                                     start_y, Len(text_lines),
                                                     line_height),
                    drawn |-> <<>>])

\* the command-line function is called with the arguments of the first call
CallCli ==
    /\ pc[1] \in {"returned", "raised"}
    /\ pc[2] = "idle"
    /\ rect_height' = [rect_height EXCEPT ![2] = rect_height[1]]
    /\ Enter(2)
    /\ UNCHANGED <<fonts, truetype_zero, text, rect_width, line_spacing,
                   layout_chosen, rect_left, rect_top, horizontal_alignment,
                   vertical_alignment, result, error, canvas>>
    /\ UNCHANGED service_vars

\* __main__: the size fits, the lines are drawn and tuple(text_bounds) is
\* returned
CliAccept(c) ==
    /\ CanTry(c)
    /\ FitsNow(c)
    /\ layout_chosen
    /\ LET w == Wrap(text, Size(c), rect_width, rect_height[c], line_spacing)
           lay == CliLayout(c, w.text_lines, rect_left, rect_top,
                            horizontal_alignment, vertical_alignment)
       IN /\ canvas' = canvas \o lay.drawn
          /\ result' = [result EXCEPT
                           ![c] = [ok |-> TRUE,
                                   text_bounds |-> lay.text_bounds]]
    /\ pc' = [pc EXCEPT ![c] = "returned"]
    /\ UNCHANGED <<fonts, truetype_zero, text, rect_width, rect_height,
                   line_spacing, layout_chosen, rect_left, rect_top,
                   horizontal_alignment, vertical_alignment, current_font,
                   start_size, error>>
    /\ UNCHANGED service_vars

\* the server's function as call 1, the command-line one as call 2; the
\* loop head, the wrap and the step to the next size are the same text in
\* both files
NextSideBySide ==
    \/ CallFirst
    \/ CallCli
    \/ \E c \in Calls : LoopExit(c)
    \/ \E c \in Calls : ZeroLineHeight(c)
    \/ Accept(1)
    \/ CliAccept(2)
    \/ \E c \in Calls : Retry(c)
    \/ \E c \in Calls : RetryRaise(c)

SpecSideBySide == Init /\ [][NextSideBySide]_vars

\* the x, y and text of the draw calls of call c, in order
DrawCallsOf(c) ==
    [i \in 1..Len(DrawsOf(c)) |->
        <<DrawsOf(c)[i].x, DrawsOf(c)[i].y, DrawsOf(c)[i].line_text>>]

\* C21: the server's function and the command-line one, given the same
\* text, font, rectangle, alignments and line spacing, end the same way:
\* the same accepted size, draw calls (x, y, line_text) and bounds, or None
\* both times, or the same exception.
C21_ServerMatchesCli ==
    (Finished(1) /\ Finished(2)) =>
        /\ pc[2] = pc[1]
        /\ error[2] = error[1]
        /\ result[2].ok = result[1].ok
        /\ result[2].text_bounds = result[1].text_bounds
        /\ Size(2) = Size(1)
        /\ DrawCallsOf(2) = DrawCallsOf(1)
        /\ \A i \in 1..Len(DrawsOf(2)) :
               fonts[DrawsOf(2)[i].font] = fonts[DrawsOf(1)[i].font]

C21_Witness ==
    /\ Accepted(1) /\ Accepted(2)
    /\ Size(1) < start_size[1]
    /\ Len(DrawsOf(2)) = 2
    /\ "a" \in Range(LinesOf(2)[1])
    /\ "a" \in Range(LinesOf(2)[2])
    /\ horizontal_alignment = "center"
    /\ vertical_alignment = "center"
    /\ rect_left < 0

(* --------------------- further claims on one call ---------------------- *)

\* rectangle origins left of and above zero, and right of and below it
PlacedOrigins == {<<-3, -2>>, <<2, 1>>}

\* one request whose rectangle origin and alignments are known from the
\* start
InitPlaced ==
    /\ fonts \in {<<s>> : s \in FontSizes}
    /\ truetype_zero = "unknown"
    /\ text = <<>>
    /\ rect_width = 0
    /\ rect_height = [c \in Calls |-> 0]
    /\ line_spacing = <<11, 10>>
    /\ layout_chosen = TRUE
    /\ \E o \in PlacedOrigins : rect_left = o[1] /\ rect_top = o[2]
    /\ horizontal_alignment \in HorizontalAlignments
    /\ vertical_alignment \in VerticalAlignments
    /\ pc = [c \in Calls |-> "idle"]
    /\ current_font = [c \in Calls |-> DefaultFont]
    /\ start_size = [c \in Calls |-> 0]
    /\ result = [c \in Calls |-> NoResult]
    /\ error = [c \in Calls |-> "none"]
    /\ canvas = <<>>
    /\ comic = NoComic
    /\ weather = NoWeather
    /\ route = NoRoute
    /\ dims = NoDims

SpecPlaced == InitPlaced /\ [][NextOnce]_vars

\* the request is for a text with a letter in a rectangle of positive width
\* and height
ProperRequest(c) ==
    /\ pc[c] # "idle"
    /\ "a" \in Range(text)
    /\ rect_width > 0
    /\ rect_height[c] > 0

\* C22: every size a font handle is asked for is >= 1: no handle of size 0
\* or less exists and truetype has not been asked for size 0.
\* (Stated for proper requests at line spacings of 1 and more.)
C22_HandleSizesPositive ==
    (ProperRequest(1) /\ line_spacing[1] >= line_spacing[2]) =>
        /\ truetype_zero = "unknown"
        /\ \A h \in DOMAIN fonts : fonts[h] >= 1

\* C23: at every size >= 1 the loop visits, line_height is >= 1 and the
\* division that computes max_lines does not fail.
\* (Stated for proper requests.)
C23_LineHeightPositive ==
    \A c \in Calls :
        ProperRequest(c) =>
            /\ (pc[c] = "loop" /\ Size(c) >= 1) =>
                  LineHeight(Size(c), line_spacing) >= 1
            /\ error[c] # "ZeroDivisionError"

\* C24: the bounds of an accepted result lie between the top and the bottom
\* of the rectangle, for either vertical alignment.
\* (Stated for proper requests at line spacings of 1 and more.)
C24_BoundsInsideVertically ==
    \A c \in Calls :
        ( /\ Accepted(c)
          /\ ProperRequest(c)
          /\ line_spacing[1] >= line_spacing[2] ) =>
            /\ rect_top <= result[c].text_bounds[2]
            /\ result[c].text_bounds[4] <= rect_top + rect_height[c]

\* C25: the bounds of an accepted result lie between the left and the right
\* of the rectangle, left before right, for either horizontal alignment and
\* for origins of either sign.
C25_BoundsInsideHorizontally ==
    \A c \in Calls :
        Accepted(c) =>
            /\ rect_left <= result[c].text_bounds[1]
            /\ result[c].text_bounds[1] <= result[c].text_bounds[3]
            /\ result[c].text_bounds[3] <= rect_left + rect_width
            /\ \A i \in 1..Len(DrawsOf(c)) :
                   /\ rect_left <= DrawsOf(c)[i].x
                   /\ DrawsOf(c)[i].x + Measure(DrawsOf(c)[i].line_text, Size(c))
                          <= rect_left + rect_width

\* a centred line whose doubled offset is odd, at a negative x
C25_Witness ==
    /\ Accepted(1)
    /\ horizontal_alignment = "center"
    /\ rect_left < 0
    /\ Len(DrawsOf(1)) = 2
    /\ "a" \in Range(LinesOf(1)[1])
    /\ (rect_width - Measure(LinesOf(1)[1], Size(1))) % 2 = 1
    /\ DrawsOf(1)[1].x > rect_left

\* C26: while a call is trying sizes, and when it ends with None or with
\* an exception, the canvas has no draw call from it; an accepted call
\* has issued one draw call per line of the wrap at the accepted size, in
\* line order, each with the font of the accepted size.
C26_DrawsOnlyWhenAccepted ==
    \A c \in Calls :
        /\ ~Accepted(c) => DrawsOf(c) = <<>>
        /\ Accepted(c) =>
              /\ LinesOf(c) = WrapAt(c, Size(c)).text_lines
              /\ \A i \in 1..Len(DrawsOf(c)) :
                     /\ DrawsOf(c)[i].font = current_font[c]
                     /\ fonts[DrawsOf(c)[i].font] = Size(c)
              /\ \A i \in 2..Len(DrawsOf(c)) :
                     DrawsOf(c)[i].y > DrawsOf(c)[i - 1].y

C26_Witness ==
    /\ Accepted(1)
    /\ current_font[1] # DefaultFont
    /\ Size(1) < start_size[1]
    /\ Len(DrawsOf(1)) = 2
    /\ "a" \in Range(LinesOf(1)[1])
    /\ "a" \in Range(LinesOf(1)[2])

\* the words can be cut into at most max_lines runs of consecutive words,
\* each run measuring at most width when joined by single spaces
RECURSIVE CanBeWrapped(_, _, _, _)
CanBeWrapped(words, size, width, max_lines) ==
    IF words = <<>> THEN TRUE
    ELSE /\ max_lines >= 1
         /\ \E j \in 1..Len(words) :
               /\ Measure(Join(SubSeq(words, 1, j)), size) <= width
               /\ CanBeWrapped(SubSeq(words, j + 1, Len(words)), size, width,
                               max_lines - 1)

\* C27: at every size with a line height the greedy wrap fits exactly when
\* the words can be wrapped at all in max_lines lines of rect_width; the
\* accepted size can be wrapped and no larger size down from the requested
\* one can.
C27_GreedyLosesNoFit ==
    \A c \in Calls :
        /\ Entered(c) =>
              \A s \in 1..start_size[c] :
                  LineHeight(s, line_spacing) > 0 =>
                      (FitsAt(c, s) <=>
                           CanBeWrapped(Words, s, rect_width, MaxLinesAt(c, s)))
        /\ Accepted(c) =>
              /\ CanBeWrapped(Words, Size(c), rect_width, MaxLinesAt(c, Size(c)))
              /\ \A s \in (Size(c) + 1)..start_size[c] :
                     ~CanBeWrapped(Words, s, rect_width, MaxLinesAt(c, s))

\* a text of three words accepted on two lines, after a larger size at
\* which no cut into max_lines lines exists
C27_Witness ==
    /\ Accepted(1)
    /\ Len(Words) = 3
    /\ Len(DrawsOf(1)) = 2
    /\ "a" \in Range(text)
    /\ Size(1) < start_size[1]

=============================================================================
